---- MODULE Spec2Model ----
(***************************************************************************)
(* Model of run_allocations.py: the batch job that spreads each task's     *)
(* estimated hours over the weeks the task spans and reconciles the        *)
(* result against the allocation records of the external store.            *)
(*                                                                         *)
(* Dates.  Day 0 is Monday 2026-01-05 (ISO week 2026-W02); a datetime is   *)
(* a record [day, tod], tod being the time of day in ticks.  All days of   *)
(* the model lie in January 2026, so isoformat and the ISO week label are  *)
(* computed by string formatting of the day number.                        *)
(*                                                                         *)
(* Hours.  Python floats are modelled as exact rationals with a fixed      *)
(* denominator: one hundredth of an hour is Cent units, and Cent is a      *)
(* multiple of every bucket count n the model can reach, so est / n is     *)
(* exact.  round(x, 2) is rounding to the nearest multiple of Cent, ties   *)
(* to the even hundredth.                                                  *)
(***************************************************************************)
EXTENDS Integers, Sequences, FiniteSets, TLC

\* ------------------------------------------------------------------ bounds
MaxDay == 14
MaxTasks == 2
MaxWeekRecs == 2
MaxJobs == 2
PageSize == 2
NumRuns == 2

RunIds == 1..NumRuns
Days == 0..MaxDay
\* times of day: midnight and noon
Tods == 0..1
DateTimes == [day : Days, tod : Tods]

\* The largest number of buckets a task of the model can span.
MaxN == (MaxDay \div 7) + 1

RECURSIVE Gcd(_, _)
Gcd(a, b) == IF b = 0 THEN a ELSE Gcd(b, a % b)
RECURSIVE LcmUpTo(_)
LcmUpTo(k) == IF k <= 1 THEN 1 ELSE (LcmUpTo(k - 1) * k) \div Gcd(LcmUpTo(k - 1), k)

\* Units per hundredth of an hour; a quarter of a hundredth is a value too.
Cent == 4 * LcmUpTo(MaxN)
Hour == 100 * Cent

\* None for identifiers (identifiers are the positive positions in a store)
\* and for optional values (a sequence of length 0 or 1).
NoId == 0
None == <<>>
Some(v) == <<v>>

\* ------------------------------------------------------------------ dates
Pad2(k) == IF k < 10 THEN "0" \o ToString(k) ELSE ToString(k)

\* dt.weekday(): Monday is 0
weekday(dt) == dt.day % 7

\* dt + timedelta(days=k): the time of day is kept
plus_days(dt, k) == [day |-> dt.day + k, tod |-> dt.tod]

\* a <= b on datetimes
dt_le(a, b) == a.day < b.day \/ (a.day = b.day /\ a.tod <= b.tod)

\* w.date().isoformat()
isoformat(dt) == "2026-01-" \o Pad2(5 + dt.day)

\* dt.strftime("%G-[W]%V")
iso_week_label(dt) == "2026-[W]" \o Pad2(2 + (dt.day \div 7))

\* rrule(WEEKLY, byweekday=MO, dtstart=s, until=end_dt) for a Monday s:
\* s, s + 7 days, ... while not after end_dt
RECURSIVE rrule_weekly(_, _)
rrule_weekly(s, until) ==
    IF dt_le(s, until) THEN <<s>> \o rrule_weekly(plus_days(s, 7), until) ELSE <<>>

\* Variant: the snap to Monday is applied to a Monday start as well.
mondays_between_always_snap(start_dt, end_dt) ==
    rrule_weekly(plus_days(start_dt, 7 - weekday(start_dt)), end_dt)

mondays_between(start_dt, end_dt) ==
    LET s == IF weekday(start_dt) # 0
             THEN plus_days(start_dt, 7 - weekday(start_dt))
             ELSE start_dt
    IN  rrule_weekly(s, end_dt)

\* Variant: the single week fallback is the due date.
task_weeks_fallback_due(s, e) ==
    LET weeks == mondays_between(s, e)
    IN  IF weeks = <<>> THEN <<e>> ELSE weeks

\* lines 138-140: the buckets of a task
task_weeks(s, e) ==
    LET weeks == mondays_between(s, e)
    IN  IF weeks = <<>> THEN <<s>> ELSE weeks

\* ------------------------------------------------------------------ hours
\* round(x, 2): to the nearest hundredth, an exact half to the even one
round2(x) ==
    LET q == x \div Cent
        r == x % Cent
    IN  IF 2 * r < Cent THEN q * Cent
        ELSE IF 2 * r > Cent THEN (q + 1) * Cent
        ELSE IF q % 2 = 0 THEN q * Cent ELSE (q + 1) * Cent

\* line 135-136: est = float(number) if number is not None else 0.0
est_of(number) == IF number = None THEN 0 ELSE number[1]

\* Variant: the estimate is divided whatever its sign.
per_week_unguarded(est, n) == est \div n

\* line 142
per_week_of(est, n) == IF est > 0 THEN est \div n ELSE 0

\* Variant: the remainder is taken from the unrounded per-week value.
carry_unrounded(est, per_week, n) == est - per_week * (n - 1)

\* line 145
carry_of(est, per_week, n) == est - round2(per_week) * (n - 1)

\* Variant: the remainder goes to the bucket after the last, that is to none.
hrs_off_by_one(i, n, est, per_week, carry) ==
    IF i = n /\ est > 0 THEN carry ELSE per_week

\* Variant: the remainder goes to the first bucket.
hrs_carry_first(i, n, est, per_week, carry) ==
    IF i = 0 /\ est > 0 THEN carry ELSE per_week

\* line 154, i counted from 0
hrs_of(i, n, est, per_week, carry) ==
    IF i = n - 1 /\ est > 0 THEN carry ELSE per_week

\* ------------------------------------------------------------------ configuration
P_WEEK_START == "Week Start"

\* ------------------------------------------------------------------ state
VARIABLES
    RUN_IF_NO_JOB,  \* configuration flag, read once
    jobs,           \* Jobs DB: sequence of job records, in the store's order
    weeksDb,        \* Weeks DB: sequence of [title, date]
    tasksDb,        \* Master Tasks DB: the records matching run's filter, in order
    allocs,         \* Allocations DB: sequence of [name, task, week, hours]
    pc,             \* per run: the position in run()
    job,            \* per run: the claimed job's id, or NoId
    idx_by_title,   \* per run
    idx_by_date,    \* per run
    cursor,         \* per run: the start_cursor of the next page, or NoId
    tasks,          \* per run: the task records fetched so far
    ti,             \* per run: position of the current task in tasks (from 1)
    weeks,          \* per run: the buckets of the current task
    est,            \* per run
    per_week,       \* per run
    carry,          \* per run
    i,              \* per run: position of the current bucket (from 0)
    call,           \* per run: the arguments of the upsert_allocation call in progress
    qry,            \* per run: the ids the allocation query of that call returned
    created,        \* per run
    updated,        \* per run
    result,         \* per run: the value run() returned
    calls,          \* per run: the remote calls made, as <<method, database>>
    handed,         \* per run: every upsert_allocation call made
    endAllocs,      \* per run: the Allocations DB when run() returned
    overlapped      \* per run: another run was in progress during this one

storeVars == <<RUN_IF_NO_JOB, jobs, weeksDb, tasksDb, allocs>>
indexVars == <<idx_by_title, idx_by_date>>
taskVars == <<weeks, est, per_week, carry>>
countVars == <<created, updated>>
vars == <<RUN_IF_NO_JOB, jobs, weeksDb, tasksDb, allocs, pc, job, idx_by_title,
          idx_by_date, cursor, tasks, ti, weeks, est, per_week, carry, i, call,
          qry, created, updated, result, calls, handed, endAllocs, overlapped>>

\* ------------------------------------------------------------------ the store
EmptyIndex == [k \in {} |-> NoId]

\* dict.get(key)
get(idx, key) == IF key \in DOMAIN idx THEN idx[key] ELSE NoId

\* dict[key] = value
put(idx, key, value) == (key :> value) @@ idx

\* One page of a paged query: the records from cursor on, at most PageSize.
page_first(c) == IF c = NoId THEN 1 ELSE c
page_last(db, c) ==
    IF page_first(c) + PageSize - 1 < Len(db) THEN page_first(c) + PageSize - 1 ELSE Len(db)
has_more(db, c) == page_last(db, c) < Len(db)
next_cursor(db, c) == page_last(db, c) + 1

\* Variant: the first job of the type, whatever its status.
first_job_of_type(js) ==
    LET hits == {j \in 1..Len(js) : js[j].type = "Run Allocations"}
    IN  IF hits = {} THEN NoId ELSE CHOOSE j \in hits : \A k \in hits : j <= k

\* first_queued_job(): the first job of the type with status Queued
first_queued_job(js) ==
    LET hits == {j \in 1..Len(js) :
                    js[j].type = "Run Allocations" /\ js[j].status = "Queued"}
    IN  IF hits = {} THEN NoId ELSE CHOOSE j \in hits : \A k \in hits : j <= k

\* Variant: the status is set on every job that has the status of job_id.
set_job_status_of_all(js, job_id, status, note) ==
    [j \in 1..Len(js) |->
        IF js[j].status = js[job_id].status
        THEN [type |-> js[j].type,
              status |-> status,
              finished |-> IF status \in {"Done", "Error"} THEN TRUE
                           ELSE js[j].finished,
              notes |-> IF note # None THEN note ELSE js[j].notes]
        ELSE js[j]]

\* set_job_status(job_id, status, note)
set_job_status(js, job_id, status, note) ==
    [js EXCEPT ![job_id] =
        [type |-> @.type,
         status |-> status,
         finished |-> IF status \in {"Done", "Error"} THEN TRUE ELSE @.finished,
         notes |-> IF note # None THEN note ELSE @.notes]]

\* Variant: a title already in the index keeps its first record.
RECURSIVE index_titles_first_wins(_, _, _, _)
index_titles_first_wins(idx, db, lo, hi) ==
    IF lo > hi THEN idx
    ELSE index_titles_first_wins(
             IF db[lo].title # "" /\ db[lo].title \notin DOMAIN idx
             THEN put(idx, db[lo].title, lo) ELSE idx,
             db, lo + 1, hi)

\* fetch_weeks_index, lines 48-58, over the records lo..hi of the Weeks DB
RECURSIVE index_titles(_, _, _, _)
index_titles(idx, db, lo, hi) ==
    IF lo > hi THEN idx
    ELSE index_titles(IF db[lo].title # "" THEN put(idx, db[lo].title, lo) ELSE idx,
                      db, lo + 1, hi)

RECURSIVE index_dates(_, _, _, _)
index_dates(idx, db, lo, hi) ==
    IF lo > hi THEN idx
    ELSE index_dates(IF db[lo].date # None THEN put(idx, db[lo].date[1], lo) ELSE idx,
                     db, lo + 1, hi)

\* lines 147-150: the week a bucket resolves to, or NoId
resolve_week(by_title, by_date, w) ==
    LET week_id == get(by_title, iso_week_label(w))
    IN  IF week_id = NoId /\ P_WEEK_START \in DOMAIN by_date
        THEN get(by_date, isoformat(w))
        ELSE week_id

\* Variant: the query finds nothing.
alloc_query_nothing(db, task_id, week_id, k) == <<>>

\* lines 77-82: the allocation records for task_id and week_id, in the store's order
RECURSIVE alloc_query(_, _, _, _)
alloc_query(db, task_id, week_id, k) ==
    IF k > Len(db) THEN <<>>
    ELSE (IF task_id \in db[k].task /\ week_id \in db[k].week THEN <<k>> ELSE <<>>)
         \o alloc_query(db, task_id, week_id, k + 1)

\* lines 126-127
task_name(t) == IF t.name # <<>> THEN t.name[1] ELSE "(untitled)"

\* Variant: a record is created whether or not one was found.
upsert_always_create(db, found, c) ==
    Append(db, [name |-> <<c.task_name, c.week_label>>,
                task |-> {c.task_id},
                week |-> {c.week_id},
                hours |-> round2(c.hours)])

\* Variant: an update rewrites the record's name as well.
upsert_update_renames(db, found, c) ==
    IF found # <<>>
    THEN [db EXCEPT ![found[1]].hours = round2(c.hours),
                    ![found[1]].name = <<c.task_name, c.week_label>>]
    ELSE Append(db, [name |-> <<c.task_name, c.week_label>>,
                     task |-> {c.task_id},
                     week |-> {c.week_id},
                     hours |-> round2(c.hours)])

\* Variant: the write also removes the task's records of other weeks.
upsert_write_prune(db, found, c) ==
    LET kept(a) == ~(c.task_id \in a.task /\ c.week_id \notin a.week)
    IN  SelectSeq(IF found # <<>>
                  THEN [db EXCEPT ![found[1]].hours = round2(c.hours)]
                  ELSE Append(db, [name |-> <<c.task_name, c.week_label>>,
                                   task |-> {c.task_id},
                                   week |-> {c.week_id},
                                   hours |-> round2(c.hours)]),
                  kept)

\* lines 83-96: the write of upsert_allocation
upsert_write(db, found, c) ==
    IF found # <<>>
    THEN [db EXCEPT ![found[1]].hours = round2(c.hours)]
    ELSE Append(db, [name |-> <<c.task_name, c.week_label>>,
                     task |-> {c.task_id},
                     week |-> {c.week_id},
                     hours |-> round2(c.hours)])

upsert_result(found) == IF found # <<>> THEN "updated" ELSE "created"

\* line 141
n_of(ws) == IF Len(ws) > 1 THEN Len(ws) ELSE 1

\* ------------------------------------------------------------------ initial states
Monday(k) == [day |-> 7 * k, tod |-> 0]

QueuedJob == [type |-> "Run Allocations", status |-> "Queued",
              finished |-> FALSE, notes |-> None]

SeqsUpTo(S, k) == UNION {[1..m -> S] : m \in 0..k}

JobStores == SeqsUpTo({QueuedJob}, MaxJobs)

\* Week records of the first two weeks: titled and dated, titled only, and
\* dated only.  A store may hold the same title twice.
WeekRecPool ==
    {[title |-> iso_week_label(Monday(0)), date |-> Some(isoformat(Monday(0)))],
     [title |-> iso_week_label(Monday(1)), date |-> None],
     [title |-> "", date |-> Some(isoformat(Monday(0)))]}

WeekStores == SeqsUpTo(WeekRecPool, MaxWeekRecs)

\* Every week of the calendar has its record, titled and dated.
FullCalendar ==
    [k \in 1..MaxN |-> [title |-> iso_week_label(Monday(k - 1)),
                        date |-> Some(isoformat(Monday(k - 1)))]]

\* The full calendar, or the calendar without its last week.
Calendars == {FullCalendar, SubSeq(FullCalendar, 1, MaxN - 1)}

\* A task of two buckets and an untitled task of one.
TaskPool ==
    {[name |-> <<"Task">>, start |-> Monday(0), due |-> Monday(1),
      hours |-> Some(10 * Hour)],
     [name |-> <<>>, start |-> [day |-> 1, tod |-> 0], due |-> Monday(1),
      hours |-> Some(10 * Hour)]}

HoursValues ==
    {None, Some(0 - Hour), Some(0), Some(Cent \div 4), Some(Cent), Some(3 * Cent),
     Some(10 * Hour)}

AnyTask == [name : {<<"Task">>}, start : DateTimes, due : DateTimes, hours : HoursValues]

TaskStores == SeqsUpTo(TaskPool, MaxTasks) \ {<<>>}

\* A record left by an earlier run: task 1 in week record 1, with other hours.
StaleAlloc == [name |-> <<"Task", iso_week_label(Monday(0))>>,
               task |-> {1}, week |-> {1}, hours |-> 5 * Hour]

AllocStores == {<<>>, <<StaleAlloc>>}

InitRuns ==
    /\ pc = [r \in RunIds |-> "idle"]
    /\ job = [r \in RunIds |-> NoId]
    /\ idx_by_title = [r \in RunIds |-> EmptyIndex]
    /\ idx_by_date = [r \in RunIds |-> EmptyIndex]
    /\ cursor = [r \in RunIds |-> NoId]
    /\ tasks = [r \in RunIds |-> <<>>]
    /\ ti = [r \in RunIds |-> 0]
    /\ weeks = [r \in RunIds |-> <<>>]
    /\ est = [r \in RunIds |-> 0]
    /\ per_week = [r \in RunIds |-> 0]
    /\ carry = [r \in RunIds |-> 0]
    /\ i = [r \in RunIds |-> 0]
    /\ call = [r \in RunIds |-> None]
    /\ qry = [r \in RunIds |-> <<>>]
    /\ created = [r \in RunIds |-> 0]
    /\ updated = [r \in RunIds |-> 0]
    /\ result = [r \in RunIds |-> <<>>]
    /\ calls = [r \in RunIds |-> {}]
    /\ handed = [r \in RunIds |-> {}]
    /\ endAllocs = [r \in RunIds |-> <<>>]
    /\ overlapped = [r \in RunIds |-> FALSE]

\* Small stores of every shape.
Init ==
    /\ RUN_IF_NO_JOB \in BOOLEAN
    /\ jobs \in JobStores
    /\ weeksDb \in WeekStores
    /\ tasksDb \in TaskStores
    /\ allocs \in AllocStores
    /\ InitRuns

\* One queued job, a calendar, and one task of any span and estimate.
InitOneTask ==
    /\ RUN_IF_NO_JOB = FALSE
    /\ jobs = <<QueuedJob>>
    /\ weeksDb \in Calendars
    /\ tasksDb \in {<<t>> : t \in AnyTask}
    /\ allocs = <<>>
    /\ InitRuns

\* One week record, one task out of the pool: stores for runs that overlap.
InitOverlap ==
    /\ RUN_IF_NO_JOB \in BOOLEAN
    /\ jobs \in JobStores
    /\ weeksDb = <<[title |-> iso_week_label(Monday(0)),
                    date |-> Some(isoformat(Monday(0)))]>>
    /\ tasksDb \in {<<t>> : t \in TaskPool}
    /\ allocs \in AllocStores
    /\ InitRuns

\* Stores one record longer than a page, so that both paged queries take
\* two pages; a title may recur on the second page.
PagedWeekStores == [1..(PageSize + 1) -> WeekRecPool]
PagedTaskStores == [1..(PageSize + 1) -> TaskPool]

InitPaged ==
    /\ RUN_IF_NO_JOB = FALSE
    /\ jobs = <<QueuedJob>>
    /\ weeksDb \in PagedWeekStores
    /\ tasksDb \in PagedTaskStores
    /\ allocs = <<>>
    /\ InitRuns

\* The first week of the calendar, or the first two; queued jobs, one task
\* out of the pool, and possibly a record of an earlier run.
InitSmall ==
    /\ RUN_IF_NO_JOB = FALSE
    /\ jobs \in JobStores \ {<<>>}
    /\ weeksDb \in {SubSeq(FullCalendar, 1, k) : k \in 1..(MaxN - 1)}
    /\ tasksDb \in {<<t>> : t \in TaskPool}
    /\ allocs \in AllocStores
    /\ InitRuns

\* ------------------------------------------------------------------ run()
\* The runs that have started and neither returned nor raised.
in_progress == {q \in RunIds : pc[q] \notin {"idle", "done", "failed"}}

\* line 99: job = first_queued_job()
Start(r) ==
    /\ pc[r] = "idle"
    /\ job' = [job EXCEPT ![r] = first_queued_job(jobs)]
    /\ calls' = [calls EXCEPT ![r] = @ \cup {<<"query", "jobs">>}]
    /\ pc' = [pc EXCEPT ![r] = "gate"]
    /\ overlapped' = IF in_progress = {} THEN overlapped
                     ELSE [q \in RunIds |-> overlapped[q] \/ q \in in_progress \cup {r}]
    /\ UNCHANGED <<storeVars, indexVars, cursor, tasks, ti, taskVars, i, call, qry,
                   countVars, result, handed, endAllocs>>

\* Runs in succession: the turn of a run comes when every earlier one has
\* returned or raised.
InTurn(r) == \A q \in RunIds : q < r => pc[q] \in {"done", "failed"}

StartInTurn(r) ==
    /\ InTurn(r)
    /\ Start(r)

\* Variant: the override is read the wrong way round.
no_job_exit_inverted(job_id, run_if_no_job) == job_id = NoId /\ run_if_no_job

\* line 100
no_job_exit(job_id, run_if_no_job) == job_id = NoId /\ ~run_if_no_job

\* lines 100-101
ExitNoJob(r) ==
    /\ pc[r] = "gate"
    /\ no_job_exit(job[r], RUN_IF_NO_JOB)
    /\ result' = [result EXCEPT ![r] = <<"No job; exiting.">>]
    /\ endAllocs' = [endAllocs EXCEPT ![r] = allocs]
    /\ pc' = [pc EXCEPT ![r] = "done"]
    /\ UNCHANGED <<storeVars, job, indexVars, cursor, tasks, ti, taskVars, i, call,
                   qry, countVars, calls, handed, overlapped>>

\* Variant: the claimed job is not marked Running.
MarkRunning_forgotten(r) ==
    /\ pc[r] = "gate"
    /\ ~no_job_exit(job[r], RUN_IF_NO_JOB)
    /\ pc' = [pc EXCEPT ![r] = "weeks"]
    /\ UNCHANGED <<storeVars, calls, job, indexVars, cursor, tasks, ti, taskVars, i,
                   call, qry, countVars, result, handed, endAllocs, overlapped>>

\* lines 103-104
MarkRunning(r) ==
    /\ pc[r] = "gate"
    /\ ~no_job_exit(job[r], RUN_IF_NO_JOB)
    /\ IF job[r] # NoId
       THEN /\ jobs' = set_job_status(jobs, job[r], "Running", None)
            /\ calls' = [calls EXCEPT ![r] = @ \cup {<<"update", "jobs">>}]
       ELSE UNCHANGED <<jobs, calls>>
    /\ pc' = [pc EXCEPT ![r] = "weeks"]
    /\ UNCHANGED <<RUN_IF_NO_JOB, weeksDb, tasksDb, allocs, job, indexVars, cursor,
                   tasks, ti, taskVars, i, call, qry, countVars, result, handed,
                   endAllocs, overlapped>>

\* fetch_weeks_index, lines 46-61: one page of the Weeks DB
FetchWeeksPage(r) ==
    /\ pc[r] = "weeks"
    /\ LET lo == page_first(cursor[r])
           hi == page_last(weeksDb, cursor[r])
       IN  /\ idx_by_title' =
                  [idx_by_title EXCEPT ![r] = index_titles(@, weeksDb, lo, hi)]
           /\ idx_by_date' =
                  [idx_by_date EXCEPT ![r] = index_dates(@, weeksDb, lo, hi)]
    /\ calls' = [calls EXCEPT ![r] = @ \cup {<<"query", "weeks">>}]
    /\ IF has_more(weeksDb, cursor[r])
       THEN /\ cursor' = [cursor EXCEPT ![r] = next_cursor(weeksDb, cursor[r])]
            /\ pc' = pc
       ELSE /\ cursor' = [cursor EXCEPT ![r] = NoId]
            /\ pc' = [pc EXCEPT ![r] = "tasks"]
    /\ UNCHANGED <<storeVars, job, tasks, ti, taskVars, i, call, qry, countVars,
                   result, handed, endAllocs, overlapped>>

\* Variant: the task query is not continued after its first page.
FetchTasksPage_first_only(r) ==
    /\ pc[r] = "tasks"
    /\ LET lo == page_first(cursor[r])
           hi == page_last(tasksDb, cursor[r])
       IN  tasks' = [tasks EXCEPT ![r] =
                        @ \o [k \in 1..(hi - lo + 1) |->
                                 [id |-> lo + k - 1,
                                  name |-> tasksDb[lo + k - 1].name,
                                  start |-> tasksDb[lo + k - 1].start,
                                  due |-> tasksDb[lo + k - 1].due,
                                  hours |-> tasksDb[lo + k - 1].hours]]]
    /\ calls' = [calls EXCEPT ![r] = @ \cup {<<"query", "tasks">>}]
    /\ cursor' = [cursor EXCEPT ![r] = NoId]
    /\ ti' = [ti EXCEPT ![r] = 1]
    /\ pc' = [pc EXCEPT ![r] = "loop"]
    /\ UNCHANGED <<storeVars, job, indexVars, taskVars, i, call, qry, countVars,
                   result, handed, endAllocs, overlapped>>

\* lines 109-123: one page of the Master Tasks DB
FetchTasksPage(r) ==
    /\ pc[r] = "tasks"
    /\ LET lo == page_first(cursor[r])
           hi == page_last(tasksDb, cursor[r])
       IN  tasks' = [tasks EXCEPT ![r] =
                        @ \o [k \in 1..(hi - lo + 1) |->
                                 [id |-> lo + k - 1,
                                  name |-> tasksDb[lo + k - 1].name,
                                  start |-> tasksDb[lo + k - 1].start,
                                  due |-> tasksDb[lo + k - 1].due,
                                  hours |-> tasksDb[lo + k - 1].hours]]]
    /\ calls' = [calls EXCEPT ![r] = @ \cup {<<"query", "tasks">>}]
    /\ IF has_more(tasksDb, cursor[r])
       THEN /\ cursor' = [cursor EXCEPT ![r] = next_cursor(tasksDb, cursor[r])]
            /\ UNCHANGED <<pc, ti>>
       ELSE /\ cursor' = [cursor EXCEPT ![r] = NoId]
            /\ ti' = [ti EXCEPT ![r] = 1]
            /\ pc' = [pc EXCEPT ![r] = "loop"]
    /\ UNCHANGED <<storeVars, job, indexVars, taskVars, i, call, qry, countVars,
                   result, handed, endAllocs, overlapped>>

\* lines 124-145: the next task, its buckets and its hours per bucket
BeginTask(r) ==
    /\ pc[r] = "loop"
    /\ ti[r] <= Len(tasks[r])
    /\ LET t == tasks[r][ti[r]]
           ws == task_weeks(t.start, t.due)
           e == est_of(t.hours)
           pw == per_week_of(e, n_of(ws))
       IN  /\ weeks' = [weeks EXCEPT ![r] = ws]
           /\ est' = [est EXCEPT ![r] = e]
           /\ per_week' = [per_week EXCEPT ![r] = pw]
           /\ carry' = [carry EXCEPT ![r] = carry_of(e, pw, n_of(ws))]
    /\ i' = [i EXCEPT ![r] = 0]
    /\ pc' = [pc EXCEPT ![r] = "bucket"]
    /\ UNCHANGED <<storeVars, job, indexVars, cursor, tasks, ti, call, qry,
                   countVars, result, calls, handed, endAllocs, overlapped>>

\* line 146: the next bucket, or the next task after the last bucket
NextBucket(r) ==
    /\ i' = [i EXCEPT ![r] = @ + 1]
    /\ IF i[r] + 1 < Len(weeks[r])
       THEN /\ pc' = [pc EXCEPT ![r] = "bucket"]
            /\ ti' = ti
       ELSE /\ pc' = [pc EXCEPT ![r] = "loop"]
            /\ ti' = [ti EXCEPT ![r] = @ + 1]

\* Variant: a bucket with no week record ends the task (break for continue).
SkipBucket_break(r) ==
    /\ pc[r] = "bucket"
    /\ resolve_week(idx_by_title[r], idx_by_date[r], weeks[r][i[r] + 1]) = NoId
    /\ i' = [i EXCEPT ![r] = Len(weeks[r])]
    /\ pc' = [pc EXCEPT ![r] = "loop"]
    /\ ti' = [ti EXCEPT ![r] = @ + 1]
    /\ UNCHANGED <<storeVars, job, indexVars, cursor, tasks, taskVars, call, qry,
                   countVars, result, calls, handed, endAllocs, overlapped>>

\* lines 147-153: a bucket with no week record is skipped
SkipBucket(r) ==
    /\ pc[r] = "bucket"
    /\ resolve_week(idx_by_title[r], idx_by_date[r], weeks[r][i[r] + 1]) = NoId
    /\ NextBucket(r)
    /\ UNCHANGED <<storeVars, job, indexVars, cursor, tasks, taskVars, call, qry,
                   countVars, result, calls, handed, endAllocs, overlapped>>

\* lines 154-155 and 77-82: upsert_allocation is called and queries the store
QueryAllocation(r) ==
    /\ pc[r] = "bucket"
    /\ LET w == weeks[r][i[r] + 1]
           t == tasks[r][ti[r]]
           week_id == resolve_week(idx_by_title[r], idx_by_date[r], w)
           hrs == hrs_of(i[r], n_of(weeks[r]), est[r], per_week[r], carry[r])
       IN  /\ week_id # NoId
           /\ call' = [call EXCEPT ![r] =
                          Some([task_id |-> t.id, task_name |-> task_name(t),
                                week_id |-> week_id, week_label |-> iso_week_label(w),
                                hours |-> hrs])]
           /\ qry' = [qry EXCEPT ![r] = alloc_query(allocs, t.id, week_id, 1)]
           /\ handed' = [handed EXCEPT ![r] =
                            @ \cup {[ti |-> ti[r], i |-> i[r], week_id |-> week_id,
                                     hours |-> hrs]}]
    /\ calls' = [calls EXCEPT ![r] = @ \cup {<<"query", "allocs">>}]
    /\ pc' = [pc EXCEPT ![r] = "write"]
    /\ UNCHANGED <<storeVars, job, indexVars, cursor, tasks, ti, taskVars, i,
                   countVars, result, endAllocs, overlapped>>

\* lines 83-96 and 156-157: upsert_allocation updates or creates, run counts
WriteAllocation(r) ==
    /\ pc[r] = "write"
    /\ allocs' = upsert_write(allocs, qry[r], call[r][1])
    /\ calls' = [calls EXCEPT ![r] =
                    @ \cup {<<IF qry[r] # <<>> THEN "update" ELSE "create", "allocs">>}]
    /\ created' = [created EXCEPT ![r] =
                      @ + (IF upsert_result(qry[r]) = "created" THEN 1 ELSE 0)]
    /\ updated' = [updated EXCEPT ![r] =
                      @ + (IF upsert_result(qry[r]) = "updated" THEN 1 ELSE 0)]
    /\ call' = [call EXCEPT ![r] = None]
    /\ qry' = [qry EXCEPT ![r] = <<>>]
    /\ NextBucket(r)
    /\ UNCHANGED <<RUN_IF_NO_JOB, jobs, weeksDb, tasksDb, job, indexVars, cursor,
                   tasks, taskVars, result, handed, endAllocs, overlapped>>

\* lines 159-161
Finish(r) ==
    /\ pc[r] = "loop"
    /\ ti[r] > Len(tasks[r])
    /\ IF job[r] # NoId
       THEN /\ jobs' = set_job_status(jobs, job[r], "Done",
                                      Some(<<"Allocations", created[r], updated[r]>>))
            /\ calls' = [calls EXCEPT ![r] = @ \cup {<<"update", "jobs">>}]
       ELSE UNCHANGED <<jobs, calls>>
    /\ result' = [result EXCEPT ![r] = <<"Done", created[r], updated[r]>>]
    /\ endAllocs' = [endAllocs EXCEPT ![r] = allocs]
    /\ pc' = [pc EXCEPT ![r] = "done"]
    /\ UNCHANGED <<RUN_IF_NO_JOB, weeksDb, tasksDb, allocs, job, indexVars, cursor,
                   tasks, ti, taskVars, i, call, qry, countVars, handed, overlapped>>

\* The next statement of run r makes a remote call: the job query (line 99),
\* the status updates (lines 104, 160), a page of the weeks or the tasks
\* (lines 47, 117), the allocation query (line 77) or write (lines 85, 90).
MakesCall(r) ==
    \/ pc[r] = "idle" /\ InTurn(r)
    \/ pc[r] = "gate" /\ ~no_job_exit(job[r], RUN_IF_NO_JOB) /\ job[r] # NoId
    \/ pc[r] \in {"weeks", "tasks", "write"}
    \/ /\ pc[r] = "bucket"
       /\ resolve_week(idx_by_title[r], idx_by_date[r], weeks[r][i[r] + 1]) # NoId
    \/ pc[r] = "loop" /\ ti[r] > Len(tasks[r]) /\ job[r] # NoId

\* Variant: the failure is caught and the claimed job is set to Error.
Fail_sets_error(r) ==
    /\ MakesCall(r)
    /\ pc' = [pc EXCEPT ![r] = "failed"]
    /\ endAllocs' = [endAllocs EXCEPT ![r] = allocs]
    /\ jobs' = IF job[r] # NoId THEN set_job_status(jobs, job[r], "Error", None)
               ELSE jobs
    /\ UNCHANGED <<RUN_IF_NO_JOB, weeksDb, tasksDb, allocs, job, indexVars, cursor,
                   tasks, ti, taskVars, i, call, qry, countVars, result, calls,
                   handed, overlapped>>

\* A remote call raises: the call has no effect on the store, nothing in
\* run() or below it catches the exception, and the run is over.
Fail(r) ==
    /\ MakesCall(r)
    /\ pc' = [pc EXCEPT ![r] = "failed"]
    /\ endAllocs' = [endAllocs EXCEPT ![r] = allocs]
    /\ UNCHANGED <<storeVars, job, indexVars, cursor, tasks, ti, taskVars, i, call,
                   qry, countVars, result, calls, handed, overlapped>>

Next ==
    \E r \in RunIds :
        \/ StartInTurn(r)
        \/ ExitNoJob(r)
        \/ MarkRunning(r)
        \/ FetchWeeksPage(r)
        \/ FetchTasksPage(r)
        \/ BeginTask(r)
        \/ SkipBucket(r)
        \/ QueryAllocation(r)
        \/ WriteAllocation(r)
        \/ Finish(r)

\* The same steps, a run starting at any time.
NextOverlap ==
    \E r \in RunIds :
        \/ Start(r)
        \/ ExitNoJob(r)
        \/ MarkRunning(r)
        \/ FetchWeeksPage(r)
        \/ FetchTasksPage(r)
        \/ BeginTask(r)
        \/ SkipBucket(r)
        \/ QueryAllocation(r)
        \/ WriteAllocation(r)
        \/ Finish(r)

\* The steps of a run that has started: every statement of run() after the
\* job query.
Continue(r) ==
    \/ ExitNoJob(r)
    \/ MarkRunning(r)
    \/ FetchWeeksPage(r)
    \/ FetchTasksPage(r)
    \/ BeginTask(r)
    \/ SkipBucket(r)
    \/ QueryAllocation(r)
    \/ WriteAllocation(r)
    \/ Finish(r)

\* The owner of a task moves its due date a week earlier while no run is in
\* progress: the Master Tasks DB is edited outside run().
ShortenTask ==
    /\ in_progress = {}
    /\ \E k \in 1..Len(tasksDb) :
           /\ tasksDb[k].due.day >= 7
           /\ tasksDb' = [tasksDb EXCEPT ![k].due = plus_days(@, 0 - 7)]
    /\ UNCHANGED <<RUN_IF_NO_JOB, jobs, weeksDb, allocs, pc, job, indexVars, cursor,
                   tasks, ti, taskVars, i, call, qry, countVars, result, calls,
                   handed, endAllocs, overlapped>>

\* Runs in succession, with edits of the tasks between them.
NextEdit ==
    \/ \E r \in RunIds :
           \/ StartInTurn(r)
           \/ ExitNoJob(r)
           \/ MarkRunning(r)
           \/ FetchWeeksPage(r)
           \/ FetchTasksPage(r)
           \/ BeginTask(r)
           \/ SkipBucket(r)
           \/ QueryAllocation(r)
           \/ WriteAllocation(r)
           \/ Finish(r)
    \/ ShortenTask

\* Runs in succession, any remote call of which may raise.
NextFail ==
    \E r \in RunIds :
        \/ StartInTurn(r)
        \/ ExitNoJob(r)
        \/ MarkRunning(r)
        \/ FetchWeeksPage(r)
        \/ FetchTasksPage(r)
        \/ BeginTask(r)
        \/ SkipBucket(r)
        \/ QueryAllocation(r)
        \/ WriteAllocation(r)
        \/ Finish(r)
        \/ Fail(r)

\* Runs in succession over small stores.
Spec == Init /\ [][Next]_vars

\* Runs that overlap, their remote calls interleaved.
SpecOverlap == InitOverlap /\ [][NextOverlap]_vars

\* Runs in succession over one task of any span and estimate.
SpecOneTask == InitOneTask /\ [][Next]_vars

\* Runs in succession over stores of two pages.  No remote call fails and
\* every call returns, so a run that has started takes its next step.
SpecPaged == InitPaged /\ [][Next]_vars /\ \A r \in RunIds : WF_vars(Continue(r))

\* Runs in succession with remote calls that may raise.
SpecFail == InitSmall /\ [][NextFail]_vars

\* Runs in succession with the tasks edited between them.
SpecEdit == InitSmall /\ [][NextEdit]_vars

TypeOK ==
    /\ \A r \in RunIds : pc[r] \in {"idle", "gate", "weeks", "tasks", "loop",
                                    "bucket", "write", "done", "failed"}
    /\ \A r \in RunIds : pc[r] = "write" => call[r] # None
    /\ \A r \in RunIds : call[r] # None => pc[r] \in {"write", "failed"}

\* ------------------------------------------------------------------ properties
\* The task whose buckets weeks[r] holds, once run r has begun a task.
HasBuckets(r) == weeks[r] # <<>>
LastTask(r) == IF pc[r] \in {"bucket", "write"} THEN ti[r] ELSE ti[r] - 1
CurTask(r) == tasks[r][LastTask(r)]

\* The task's estimate H; an absent estimate counts as 0.
Estimate(t) == IF t.hours = None THEN 0 ELSE t.hours[1]

\* The upsert_allocation calls run r made for its k-th task.
HandedOf(r, k) == {h \in handed[r] : h.ti = k}

\* Every bucket of the task was handed to upsert_allocation and written.
AllWritten(r) ==
    /\ HasBuckets(r)
    /\ i[r] = Len(weeks[r])
    /\ \A j \in 0..(Len(weeks[r]) - 1) : \E h \in HandedOf(r, LastTask(r)) : h.i = j

\* The hours handed to upsert_allocation for bucket j (from 0) of the task.
HandedHours(r, j) == (CHOOSE h \in HandedOf(r, LastTask(r)) : h.i = j).hours

\* The planned hours the store holds for bucket j (from 0) of the task.
WrittenHours(r, j) ==
    LET h == CHOOSE x \in HandedOf(r, LastTask(r)) : x.i = j
        k == CHOOSE x \in 1..Len(allocs) :
                 CurTask(r).id \in allocs[x].task /\ h.week_id \in allocs[x].week
    IN  allocs[k].hours

RECURSIVE SumTo(_, _)
SumTo(f, n) == IF n = 0 THEN 0 ELSE f[n] + SumTo(f, n - 1)

SumHanded(r) == SumTo([j \in 1..Len(weeks[r]) |-> HandedHours(r, j - 1)], Len(weeks[r]))
SumWritten(r) == SumTo([j \in 1..Len(weeks[r]) |-> WrittenHours(r, j - 1)], Len(weeks[r]))

\* The day of the first Monday on or after day d.
FirstMondayDay(d) == CHOOSE m \in d..(d + 6) : m % 7 = 0

\* C1, as claimed: for a task with estimate H > 0, the hours run hands to the
\* reconciler for the task's n buckets sum to H.
C1_HandedSumIsEstimate ==
    \A r \in RunIds :
        (AllWritten(r) /\ Estimate(CurTask(r)) > 0)
            => SumHanded(r) = Estimate(CurTask(r))

\* C1, amended: for a task with estimate H > 0 whose n buckets all resolve,
\* the hours handed over sum to H + (n-1) * (H/n - round(H/n, 2)), and the
\* planned hours written for them, each rounded to 2 decimals by the
\* reconciler, sum to H when H is a whole number of hundredths.
C1_WrittenSumIsEstimate ==
    \A r \in RunIds :
        (AllWritten(r) /\ Estimate(CurTask(r)) > 0)
            => LET H == Estimate(CurTask(r))
                   n == Len(weeks[r])
               IN  /\ SumHanded(r) - H = (n - 1) * ((H \div n) - round2(H \div n))
                   /\ H % Cent = 0 => SumWritten(r) = H

\* C1 witness: 10 hours over 3 buckets, written 10 in total, handed more.
C1_Witness ==
    \E r \in RunIds :
        /\ AllWritten(r)
        /\ Estimate(CurTask(r)) = 10 * Hour
        /\ Len(weeks[r]) = 3
        /\ SumWritten(r) = 10 * Hour
        /\ SumHanded(r) # 10 * Hour

\* C5, as claimed: for due >= start the buckets are the Mondays from the first
\* Monday on or after start up to and including the first Monday on or after
\* due, ascending, 7 days apart.
C5_UpToFirstMondayAfterDue ==
    \A r \in RunIds :
        (HasBuckets(r) /\ dt_le(CurTask(r).start, CurTask(r).due))
            => LET first == FirstMondayDay(CurTask(r).start.day)
                   last == FirstMondayDay(CurTask(r).due.day)
                   S == {m \in first..last : m % 7 = 0}
               IN  /\ Len(weeks[r]) = Cardinality(S)
                   /\ \A k \in 1..Len(weeks[r]) : weeks[r][k].day = first + 7 * (k - 1)

\* C5, amended: for due >= start the buckets are the Mondays, at start's time
\* of day, from the first Monday on or after start up to and including the
\* last one that is not after due, ascending, 7 days apart; when there is no
\* such Monday the only bucket is start itself.
C5_UpToLastMondayBeforeDue ==
    \A r \in RunIds :
        (HasBuckets(r) /\ dt_le(CurTask(r).start, CurTask(r).due))
            => LET s == CurTask(r).start
                   e == CurTask(r).due
                   at(k) == [day |-> FirstMondayDay(s.day) + 7 * k, tod |-> s.tod]
                   M == {k \in 0..MaxN : dt_le(at(k), e)}
               IN  IF M = {}
                   THEN weeks[r] = <<s>>
                   ELSE /\ Len(weeks[r]) = Cardinality(M)
                        /\ \A k \in 1..Len(weeks[r]) : weeks[r][k] = at(k - 1)

\* C5 witness: two buckets, the last one the Monday before a due date that
\* is no Monday.
C5_Witness ==
    \E r \in RunIds :
        /\ HasBuckets(r)
        /\ CurTask(r).due.day % 7 # 0
        /\ Len(weeks[r]) = 2
        /\ weeks[r][2].day + 7 > CurTask(r).due.day

\* C6, as claimed: for H > 0 and n buckets that all resolve, the planned hours
\* written are round(H/n, 2) for every bucket but the last and
\* H - round(H/n, 2) * (n-1) for the last.
C6_LastIsRemainder ==
    \A r \in RunIds :
        (AllWritten(r) /\ Estimate(CurTask(r)) > 0)
            => LET H == Estimate(CurTask(r))
                   n == Len(weeks[r])
               IN  \A j \in 0..(n - 1) :
                       WrittenHours(r, j) =
                           IF j < n - 1 THEN round2(H \div n)
                           ELSE H - round2(H \div n) * (n - 1)

\* C6, amended: for H > 0 and n buckets that all resolve, the planned hours
\* written are round(H/n, 2) for every bucket but the last and
\* round(H - round(H/n, 2) * (n-1), 2) for the last.
C6_LastIsRoundedRemainder ==
    \A r \in RunIds :
        (AllWritten(r) /\ Estimate(CurTask(r)) > 0)
            => LET H == Estimate(CurTask(r))
                   n == Len(weeks[r])
               IN  \A j \in 0..(n - 1) :
                       WrittenHours(r, j) =
                           IF j < n - 1 THEN round2(H \div n)
                           ELSE round2(H - round2(H \div n) * (n - 1))

\* C6 witness: 10 hours over 3 buckets are written as 3.33, 3.33, 3.34.
C6_Witness ==
    \E r \in RunIds :
        /\ AllWritten(r)
        /\ Estimate(CurTask(r)) = 10 * Hour
        /\ Len(weeks[r]) = 3
        /\ WrittenHours(r, 0) = 333 * Cent
        /\ WrittenHours(r, 1) = 333 * Cent
        /\ WrittenHours(r, 2) = 334 * Cent

\* The due date precedes the first Monday on or after start (at start's time
\* of day); due < start is a case of it.
DueBeforeFirstMonday(t) ==
    ~dt_le([day |-> FirstMondayDay(t.start.day), tod |-> t.start.tod], t.due)

\* C10, as claimed: a task whose due date precedes the first Monday on or
\* after its start has one bucket, dated at its start, that carries the full
\* estimate H.
C10_FallbackCarriesEstimate ==
    \A r \in RunIds :
        (HasBuckets(r) /\ DueBeforeFirstMonday(CurTask(r)))
            => /\ weeks[r] = <<CurTask(r).start>>
               /\ \A h \in HandedOf(r, LastTask(r)) : h.hours = Estimate(CurTask(r))

\* C10, amended: such a task has one bucket, dated at its start, that carries
\* the full estimate H when H >= 0, and 0 when H is negative.
C10_FallbackCarriesPositiveEstimate ==
    \A r \in RunIds :
        (HasBuckets(r) /\ DueBeforeFirstMonday(CurTask(r)))
            => /\ weeks[r] = <<CurTask(r).start>>
               /\ \A h \in HandedOf(r, LastTask(r)) :
                      h.hours = IF Estimate(CurTask(r)) >= 0
                                THEN Estimate(CurTask(r)) ELSE 0

\* C10 witness: a start that is no Monday, a due date before the next Monday,
\* and the 10 hours handed over for the bucket dated at start.
C10_Witness ==
    \E r \in RunIds :
        /\ HasBuckets(r)
        /\ DueBeforeFirstMonday(CurTask(r))
        /\ CurTask(r).start.day % 7 # 0
        /\ dt_le(CurTask(r).start, CurTask(r).due)
        /\ \E h \in HandedOf(r, LastTask(r)) : h.hours = 10 * Hour

\* The run returned "Done (+created, ✎updated)".
ReturnedDone(r) == pc[r] = "done" /\ result[r] = <<"Done", created[r], updated[r]>>

\* C2: of two runs in succession over the same tasks, weeks and override,
\* the second creates no allocation record, every upsert of it returns
\* updated, and every record's planned hours after it are those after the
\* first.
C2_SecondRunIdempotent ==
    \A r \in RunIds :
        (r > 1 /\ pc[r] = "done")
            => /\ created[r] = 0
               /\ updated[r] = Cardinality(handed[r])
               /\ Len(endAllocs[r]) = Len(endAllocs[r - 1])
               /\ \A k \in 1..Len(endAllocs[r]) :
                      endAllocs[r][k].hours = endAllocs[r - 1][k].hours

\* C2 witness: the first run created records and the second one updated them.
C2_Witness ==
    /\ ReturnedDone(1) /\ created[1] > 1
    /\ ReturnedDone(2) /\ updated[2] > 1

\* The number of allocation records for a task and a week.
RecordsFor(task_id, week_id) ==
    Cardinality({k \in 1..Len(allocs) :
                    task_id \in allocs[k].task /\ week_id \in allocs[k].week})

\* C3: across runs in succession, starting from a store with at most one
\* record per (task, week), the store holds at most one allocation record
\* per (task, week).
C3_OneRecordPerPair ==
    \A t \in 1..Len(tasksDb) : \A w \in 1..Len(weeksDb) : RecordsFor(t, w) <= 1

\* C3 witness: a second run has met and updated the records of two pairs.
C3_Witness ==
    /\ ReturnedDone(2) /\ updated[2] > 1
    /\ \E t \in 1..Len(tasksDb) : \E w1, w2 \in 1..Len(weeksDb) :
           w1 # w2 /\ RecordsFor(t, w1) = 1 /\ RecordsFor(t, w2) = 1

\* The buckets of its current task that run r has passed, counted from 0.
Passed(r) == IF HasBuckets(r) THEN 0..(i[r] - 1) ELSE {}

\* Run r called upsert_allocation for bucket j of its k-th task.
WasHanded(r, k, j) == \E h \in handed[r] : h.ti = k /\ h.i = j

LabelHit(r, w) == iso_week_label(w) \in DOMAIN idx_by_title[r]
DateHit(r, w) == isoformat(w) \in DOMAIN idx_by_date[r]

\* C4: a bucket whose label misses the label index and whose date is in the
\* date index is resolved to the date-indexed week and handed to the
\* reconciler; a bucket is skipped only when both lookups miss.
C4_DateFallback ==
    \A r \in RunIds : \A j \in Passed(r) :
        LET w == weeks[r][j + 1]
        IN  /\ (~LabelHit(r, w) /\ DateHit(r, w))
                  => \E h \in HandedOf(r, LastTask(r)) :
                         h.i = j /\ h.week_id = idx_by_date[r][isoformat(w)]
            /\ ~WasHanded(r, LastTask(r), j) => (~LabelHit(r, w) /\ ~DateHit(r, w))

\* No job record of the type is Queued.
NoQueuedJob ==
    \A j \in 1..Len(jobs) :
        ~(jobs[j].type = "Run Allocations" /\ jobs[j].status = "Queued")

StoresUnchanged ==
    /\ jobs' = jobs /\ weeksDb' = weeksDb /\ tasksDb' = tasksDb /\ allocs' = allocs

\* C7: with no Queued job and the override not set, the run queries the jobs
\* and returns "No job; exiting.": it creates or updates no record and never
\* queries the weeks or the tasks.
C7_NoJobNoEffect ==
    /\ [](\A r \in RunIds :
            (pc[r] = "gate" /\ NoQueuedJob /\ ~RUN_IF_NO_JOB)
                => job[r] = NoId /\ calls[r] = {<<"query", "jobs">>})
    /\ [][\A r \in RunIds :
            (pc'[r] # pc[r] /\ pc[r] \in {"idle", "gate"} /\ NoQueuedJob /\ ~RUN_IF_NO_JOB)
                => /\ StoresUnchanged
                   /\ pc[r] = "gate"
                         => /\ pc'[r] = "done"
                            /\ result'[r] = <<"No job; exiting.">>
                            /\ calls'[r] = calls[r]]_vars

\* C7 witness: a run over a store with tasks and weeks has returned without
\* a job.
C7_Witness ==
    \E r \in RunIds :
        /\ pc[r] = "done" /\ result[r] = <<"No job; exiting.">>
        /\ jobs = <<>> /\ Len(tasksDb) > 1 /\ Len(weeksDb) > 1
        /\ calls[r] = {<<"query", "jobs">>}

\* C9: a bucket whose label and date both miss the week index is not handed
\* to the reconciler, and the run goes on: when it returns it has returned
\* Done, and it has handed over every bucket of every task that resolves.
C9_SkipMissingWeek ==
    \A r \in RunIds :
        /\ \A j \in Passed(r) :
               (~LabelHit(r, weeks[r][j + 1]) /\ ~DateHit(r, weeks[r][j + 1]))
                   => ~WasHanded(r, LastTask(r), j)
        /\ (pc[r] = "done" /\ result[r] # <<"No job; exiting.">>)
               => /\ ReturnedDone(r)
                  /\ Len(tasks[r]) = Len(tasksDb)
                  /\ \A k \in 1..Len(tasks[r]) :
                         LET ws == task_weeks(tasks[r][k].start, tasks[r][k].due)
                         IN  \A j \in 0..(Len(ws) - 1) :
                                 LabelHit(r, ws[j + 1]) => WasHanded(r, k, j)

\* C9 witness: the first bucket of the first task missed both indexes, the
\* second bucket and the task after it were handed over.
C9_Witness ==
    \E r \in RunIds :
        /\ ReturnedDone(r)
        /\ Len(tasks[r]) = 2
        /\ LET ws == task_weeks(tasks[r][1].start, tasks[r][1].due)
           IN  /\ Len(ws) = 2
               /\ ~LabelHit(r, ws[1]) /\ ~DateHit(r, ws[1])
        /\ ~WasHanded(r, 1, 0) /\ WasHanded(r, 1, 1) /\ WasHanded(r, 2, 0)

\* The positions of run() between marking the job Running and finishing.
Working == {"weeks", "tasks", "loop", "bucket", "write"}

\* C8, as claimed: the status of a job changes only from Queued to Running
\* and from Running to Done or Error; it never leaves a final status and
\* never returns to Queued.
C8_StatusStateMachine ==
    [][\A j \in 1..Len(jobs) :
          jobs'[j].status # jobs[j].status
              => <<jobs[j].status, jobs'[j].status>> \in
                     {<<"Queued", "Running">>, <<"Running", "Done">>,
                      <<"Running", "Error">>}]_vars

\* C8, amended: a run that claims a job sets the status to Running before it
\* queries the weeks and before any allocation query or write, sets it to
\* Done only when it has made its last upsert, and never sets Queued or
\* Error; when no other run overlaps it, the status is Queued until then,
\* Running while the run works and Done once it has returned.
C8_RunOrdersItsWrites ==
    /\ [](\A r \in RunIds :
            job[r] # NoId
                => /\ jobs[job[r]].status \in {"Queued", "Running", "Done"}
                   /\ pc[r] = "gate" => calls[r] = {<<"query", "jobs">>}
                   /\ pc[r] \in Working \cup {"done"} => <<"update", "jobs">> \in calls[r]
                   /\ ~overlapped[r]
                         => /\ pc[r] = "gate" => jobs[job[r]].status = "Queued"
                            /\ pc[r] \in Working => jobs[job[r]].status = "Running"
                            /\ pc[r] = "done" => jobs[job[r]].status = "Done")
    /\ [][/\ \A j \in 1..Len(jobs) :
                jobs'[j].status # jobs[j].status
                    => \E r \in RunIds :
                           /\ job[r] = j
                           /\ \/ /\ pc[r] = "gate" /\ pc'[r] = "weeks"
                                 /\ jobs'[j].status = "Running"
                              \/ /\ pc[r] = "loop" /\ pc'[r] = "done"
                                 /\ jobs'[j].status = "Done"
          /\ \A r \in RunIds :
                pc[r] = "done"
                    => pc'[r] = "done" /\ handed'[r] = handed[r] /\ calls'[r] = calls[r]]_vars

\* C8 witness: a run that no other run overlapped has claimed a job, made
\* upserts and left the job Done, and a later run has returned too.
C8_Witness ==
    \E r, q \in RunIds :
        /\ r # q /\ pc[r] = "done" /\ pc[q] = "done"
        /\ ~overlapped[r]
        /\ job[r] # NoId /\ jobs[job[r]].status = "Done"
        /\ handed[r] # {}

\* The buckets of its current task that run r has passed and that resolve.
Resolved(r) == {j \in Passed(r) : LabelHit(r, weeks[r][j + 1])}

\* C11: a task whose estimate is absent, 0 or negative has 0 hours in every
\* bucket, and every bucket of it that resolves to a week record is still
\* handed to the reconciler and written with planned hours 0.
C11_ZeroEstimateStillWritten ==
    \A r \in RunIds :
        (HasBuckets(r) /\ Estimate(CurTask(r)) <= 0)
            => /\ \A j \in 0..(Len(weeks[r]) - 1) :
                      hrs_of(j, n_of(weeks[r]), est[r], per_week[r], carry[r]) = 0
               /\ \A h \in HandedOf(r, LastTask(r)) : h.hours = 0
               /\ \A j \in Resolved(r) :
                      /\ WasHanded(r, LastTask(r), j)
                      /\ WrittenHours(r, j) = 0

\* C11 witness: a negative estimate over three buckets, all three written
\* with 0 hours.
C11_Witness ==
    \E r \in RunIds :
        /\ AllWritten(r)
        /\ Estimate(CurTask(r)) < 0
        /\ Len(weeks[r]) = 3
        /\ Len(allocs) = 3
        /\ \A k \in 1..Len(allocs) : allocs[k].hours = 0

\* Run r has gone through every record of the task query: it fetched them
\* all, its loop is past the last, and every bucket that resolves was handed
\* to the reconciler.
ProcessedEveryTask(r) ==
    /\ Len(tasks[r]) = Len(tasksDb)
    /\ ti[r] = Len(tasksDb) + 1
    /\ \A k \in 1..Len(tasksDb) :
           /\ tasks[r][k].id = k
           /\ LET ws == task_weeks(tasksDb[k].start, tasksDb[k].due)
              IN  \A j \in 0..(Len(ws) - 1) :
                      LabelHit(r, ws[j + 1]) => WasHanded(r, k, j)

\* C12: when no remote call fails and the paged queries end, a run that
\* claimed a job and marked it Running eventually returns with the job's
\* status Done, having processed every task of every page of the task query.
C12_ClaimedRunEndsDone ==
    \A r \in RunIds :
        (pc[r] = "weeks" /\ job[r] # NoId)
            ~> (/\ ReturnedDone(r)
                /\ jobs[job[r]].status = "Done"
                /\ ProcessedEveryTask(r))

\* C12 witness: a run has returned with its job Done after handing over a
\* bucket of the task on the second page of the task query.
C12_Witness ==
    \E r \in RunIds :
        /\ ReturnedDone(r)
        /\ job[r] # NoId /\ jobs[job[r]].status = "Done"
        /\ Len(tasks[r]) > PageSize
        /\ WasHanded(r, PageSize + 1, 0)

\* Run r called upsert_allocation for the task and the week and created a
\* record in that call or another.
CreatedFor(r, task_id, week_id) ==
    /\ created[r] >= 1
    /\ \E h \in handed[r] : tasks[r][h.ti].id = task_id /\ h.week_id = week_id

\* Run r and another run were in progress at the same time, and that other
\* run created a record for the task and the week.
RacedOn(r, task_id, week_id) ==
    \E q \in RunIds \ {r} :
        overlapped[r] /\ overlapped[q] /\ CreatedFor(q, task_id, week_id)

\* C13: two runs that overlap can leave two allocation records for one
\* (task, week): both query before either has written, both find nothing and
\* both create.  That is the only way to a second record: a run is about to
\* create beside an existing record, and the store holds two records for a
\* pair, only when runs that overlapped created them.
C13_DuplicateOnlyByRace ==
    /\ \A r \in RunIds :
           (pc[r] = "write" /\ qry[r] = <<>>
                /\ RecordsFor(call[r][1].task_id, call[r][1].week_id) >= 1)
               => RacedOn(r, call[r][1].task_id, call[r][1].week_id)
    /\ \A t \in 1..Len(tasksDb) : \A w \in 1..Len(weeksDb) :
           RecordsFor(t, w) >= 2
               => \E r \in RunIds : CreatedFor(r, t, w) /\ RacedOn(r, t, w)

\* C13 witness: two runs have returned, each has created one record, and
\* the store holds two records for the same task and week.
C13_Witness ==
    \E r, q \in RunIds :
        /\ r # q /\ ReturnedDone(r) /\ ReturnedDone(q)
        /\ created[r] = 1 /\ created[q] = 1
        /\ \E t \in 1..Len(tasksDb) : \E w \in 1..Len(weeksDb) :
               /\ RecordsFor(t, w) = 2
               /\ CreatedFor(r, t, w) /\ CreatedFor(q, t, w)

\* Run r claimed a job and marked it Running.
MarkedRunning(r) == job[r] # NoId /\ <<"update", "jobs">> \in calls[r]

\* The upsert_allocation calls of run r whose write was made: every call but
\* the one a failure interrupted.
WrittenBy(r) ==
    {h \in handed[r] : ~(call[r] # None /\ h.ti = ti[r] /\ h.i = i[r])}

\* C14: when a remote call fails after the claimed job was marked Running,
\* the run is over without a result and makes no further call, the failing
\* step changes no record, the job stays Running (unfinished: no run sets
\* it to Error, and that run never sets it to Done), and every allocation
\* the run wrote before the failure is in the store with the hours written.
C14_FailureLeavesRunning ==
    /\ [](\A r \in RunIds :
            (pc[r] = "failed" /\ MarkedRunning(r))
                => /\ result[r] = <<>>
                   /\ jobs[job[r]].status = "Running"
                   /\ ~jobs[job[r]].finished
                   /\ \A h \in WrittenBy(r) :
                          \E k \in 1..Len(allocs) :
                              /\ tasks[r][h.ti].id \in allocs[k].task
                              /\ h.week_id \in allocs[k].week
                              /\ allocs[k].hours = round2(h.hours))
    /\ [][\A r \in RunIds :
            /\ (pc[r] # "failed" /\ pc'[r] = "failed") => StoresUnchanged
            /\ pc[r] = "failed"
                  => /\ pc'[r] = "failed"
                     /\ calls'[r] = calls[r] /\ handed'[r] = handed[r]
                     /\ created'[r] = created[r] /\ updated'[r] = updated[r]
                     /\ result'[r] = result[r]]_vars

\* C14 witness: a run failed after marking its job Running and creating a
\* record; a later run has returned Done with another job, and the first
\* job is still Running.
C14_Witness ==
    \E r, q \in RunIds :
        /\ pc[r] = "failed" /\ MarkedRunning(r)
        /\ created[r] >= 1 /\ Len(endAllocs[r]) >= 1
        /\ ReturnedDone(q) /\ job[q] # NoId /\ job[q] # job[r]
        /\ jobs[job[r]].status = "Running"

\* The steps of an upsert_allocation call of run r: its query and its write.
UpsertQueries(r) == pc[r] = "bucket" /\ pc'[r] = "write"
UpsertWrites(r) == pc[r] = "write" /\ pc'[r] # "write"

\* C15: a call of upsert_allocation makes one write.  Its query changes no
\* record.  When a record for the task and the week exists, the write sets
\* the planned hours of the first such record to round(hours, 2), leaves
\* that record's name, task and week and every other record as they were,
\* and the call returns updated; otherwise the write adds one record, of
\* that task and that week alone, with planned hours round(hours, 2), leaves
\* every other record as it was, and the call returns created.
C15_UpsertWritesOnce ==
    [][\A r \in RunIds :
          /\ UpsertQueries(r) => StoresUnchanged
          /\ UpsertWrites(r)
                => LET c == call[r][1]
                       found == alloc_query(allocs, c.task_id, c.week_id, 1)
                   IN  /\ jobs' = jobs /\ weeksDb' = weeksDb /\ tasksDb' = tasksDb
                       /\ IF found # <<>>
                          THEN /\ Len(allocs') = Len(allocs)
                               /\ allocs'[found[1]] =
                                      [name |-> allocs[found[1]].name,
                                       task |-> allocs[found[1]].task,
                                       week |-> allocs[found[1]].week,
                                       hours |-> round2(c.hours)]
                               /\ \A k \in 1..Len(allocs) :
                                      k # found[1] => allocs'[k] = allocs[k]
                               /\ updated'[r] = updated[r] + 1
                               /\ created'[r] = created[r]
                               /\ <<"update", "allocs">> \in calls'[r]
                          ELSE /\ Len(allocs') = Len(allocs) + 1
                               /\ allocs'[Len(allocs')].task = {c.task_id}
                               /\ allocs'[Len(allocs')].week = {c.week_id}
                               /\ allocs'[Len(allocs')].hours = round2(c.hours)
                               /\ \A k \in 1..Len(allocs) : allocs'[k] = allocs[k]
                               /\ created'[r] = created[r] + 1
                               /\ updated'[r] = updated[r]
                               /\ <<"create", "allocs">> \in calls'[r]]_vars

\* C15 witness: a run has updated the record an earlier run left, whose name
\* is not the one the run would give it and whose hours were others, and
\* has created a second record.
C15_Witness ==
    \E r \in RunIds :
        /\ ReturnedDone(r) /\ updated[r] = 1 /\ created[r] = 1
        /\ Len(allocs) = 2
        /\ allocs[1].name = StaleAlloc.name
        /\ allocs[1].name[1] # task_name(tasks[r][1])
        /\ allocs[1].hours # StaleAlloc.hours

\* Some run takes a step.
RunSteps == \E r \in RunIds : pc'[r] # pc[r]

\* The task of the store spans the week record: one of its buckets, computed
\* from the task as it is now, resolves to that record.
Spans(t, w) ==
    LET ws == task_weeks(tasksDb[t].start, tasksDb[t].due)
        by_title == index_titles(EmptyIndex, weeksDb, 1, Len(weeksDb))
        by_date == index_dates(EmptyIndex, weeksDb, 1, Len(weeksDb))
    IN  \E j \in 1..Len(ws) : resolve_week(by_title, by_date, ws[j]) = w

\* C16: no step of a run changes the tasks or the weeks, and no step at all
\* removes an allocation record: the records of the store stay, with their
\* name, task and week, new ones are added after them, and the record of a
\* week its task does not span keeps its hours.
C16_NothingDeleted ==
    [][/\ RunSteps => (tasksDb' = tasksDb /\ weeksDb' = weeksDb)
       /\ Len(allocs') >= Len(allocs)
       /\ \A k \in 1..Len(allocs) :
              /\ allocs'[k].name = allocs[k].name
              /\ allocs'[k].task = allocs[k].task
              /\ allocs'[k].week = allocs[k].week
              /\ (\A t \in allocs[k].task : \A w \in allocs[k].week : ~Spans(t, w))
                     => allocs'[k].hours = allocs[k].hours]_vars

\* C16 witness: the first run gave the task 5 hours in each of two weeks,
\* the task was cut to the first week, and after the second run the task has
\* 10 hours in the first week and still 5 in the second.
C16_Witness ==
    /\ ReturnedDone(1) /\ ReturnedDone(2)
    /\ created[1] = 2 /\ updated[2] = 1 /\ created[2] = 0
    /\ Len(allocs) = 2
    /\ allocs[1].hours = 10 * Hour /\ allocs[2].hours = 5 * Hour
    /\ ~Spans(1, 2)

\* The Queued jobs of the type, in the order of the job query.
QueuedJobs ==
    {j \in 1..Len(jobs) : jobs[j].type = "Run Allocations" /\ jobs[j].status = "Queued"}

\* C17: a run claims at most one job: the job it holds is the first Queued
\* one its job query returned, that job is the only job record a step of
\* the run changes, and every other job record, Queued ones included, is left
\* as it was.
C17_ClaimsFirstJobOnly ==
    [][\A r \in RunIds :
          pc'[r] # pc[r]
              => /\ pc[r] = "idle"
                    => /\ jobs' = jobs
                       /\ IF QueuedJobs = {} THEN job'[r] = NoId
                          ELSE /\ job'[r] \in QueuedJobs
                               /\ \A j \in QueuedJobs : job'[r] <= j
                 /\ pc[r] # "idle" => job'[r] = job[r]
                 /\ \A j \in 1..Len(jobs) : j # job'[r] => jobs'[j] = jobs[j]]_vars

\* C17 witness: of two Queued jobs the first run has taken the first to
\* Done, and the second job is as it was while no other run has started.
C17_Witness ==
    /\ Len(jobs) = 2
    /\ ReturnedDone(1) /\ job[1] = 1 /\ jobs[1].status = "Done"
    /\ \A r \in RunIds \ {1} : pc[r] = "idle"
    /\ jobs[2] = QueuedJob

\* fetch_weeks_index has returned to run r.
IndexBuilt(r) == <<"query", "weeks">> \in calls[r] /\ pc[r] # "weeks"

\* The identifiers an index maps to.
Range(idx) == {idx[key] : key \in DOMAIN idx}

\* C18: once the week index is built over all pages, the label index has
\* exactly the non-empty titles of the week records and maps each to the
\* last record of that title in the order of the pages, no record with an
\* empty title is in the label index, and no record without a week start
\* date is in the date index.
C18_LastTitleWins ==
    \A r \in RunIds :
        IndexBuilt(r)
            => /\ DOMAIN idx_by_title[r] =
                      {weeksDb[k].title : k \in 1..Len(weeksDb)} \ {""}
               /\ \A k \in 1..Len(weeksDb) :
                      /\ weeksDb[k].title # ""
                            => /\ idx_by_title[r][weeksDb[k].title] >= k
                               /\ weeksDb[idx_by_title[r][weeksDb[k].title]].title
                                      = weeksDb[k].title
                      /\ weeksDb[k].title = "" => k \notin Range(idx_by_title[r])
                      /\ weeksDb[k].date = None => k \notin Range(idx_by_date[r])

\* C18 witness: the title of a record of the first page recurs on the second
\* page and the index holds the record of the second page; the store has a
\* record without title and one without date, both out of their index.
C18_Witness ==
    \E r \in RunIds :
        /\ IndexBuilt(r)
        /\ \E k \in 1..PageSize :
               /\ weeksDb[k].title # ""
               /\ weeksDb[k].title = weeksDb[PageSize + 1].title
               /\ idx_by_title[r][weeksDb[k].title] = PageSize + 1
        /\ \E k \in 1..Len(weeksDb) :
               weeksDb[k].title = "" /\ k \notin Range(idx_by_title[r])
        /\ \E k \in 1..Len(weeksDb) :
               weeksDb[k].date = None /\ k \notin Range(idx_by_date[r])

\* Run r is past the last bucket of its current task.
AllPassed(r) == HasBuckets(r) /\ i[r] = Len(weeks[r])

\* The allocation records of a task, and the sum of their planned hours.
RecordsOfTask(task_id) == {k \in 1..Len(allocs) : task_id \in allocs[k].task}
HoursOfTask(task_id) ==
    SumTo([k \in 1..Len(allocs) |->
              IF task_id \in allocs[k].task THEN allocs[k].hours ELSE 0], Len(allocs))

\* C19: the remainder goes with the position of the last bucket.  For a
\* task with H > 0 and n >= 2 buckets whose last bucket has no week record,
\* the last bucket is not handed to the reconciler, every bucket handed over
\* carries H/n, every record written for the task holds round(H/n, 2), and
\* the hours written for the task total the number of resolved buckets
\* times round(H/n, 2).
C19_RemainderLostWithLastBucket ==
    \A r \in RunIds :
        (/\ AllPassed(r)
         /\ Estimate(CurTask(r)) > 0
         /\ Len(weeks[r]) >= 2
         /\ ~LabelHit(r, weeks[r][Len(weeks[r])])
         /\ ~DateHit(r, weeks[r][Len(weeks[r])]))
            => LET H == Estimate(CurTask(r))
                   n == Len(weeks[r])
               IN  /\ ~WasHanded(r, LastTask(r), n - 1)
                   /\ \A h \in HandedOf(r, LastTask(r)) : h.hours = H \div n
                   /\ \A k \in RecordsOfTask(CurTask(r).id) :
                          allocs[k].hours = round2(H \div n)
                   /\ Cardinality(RecordsOfTask(CurTask(r).id)) =
                          Cardinality(Resolved(r))
                   /\ HoursOfTask(CurTask(r).id) =
                          Cardinality(Resolved(r)) * round2(H \div n)

\* C19 witness: 10 hours over three buckets, the third without week record:
\* two records of 3.33 hours, 6.66 hours in all, and the 3.34 of the last
\* bucket nowhere.
C19_Witness ==
    \E r \in RunIds :
        /\ AllPassed(r)
        /\ Estimate(CurTask(r)) = 10 * Hour
        /\ Len(weeks[r]) = 3
        /\ ~LabelHit(r, weeks[r][3])
        /\ carry[r] = 334 * Cent
        /\ Cardinality(RecordsOfTask(CurTask(r).id)) = 2
        /\ HoursOfTask(CurTask(r).id) = 666 * Cent

\* C20: claiming a job is a query followed by an update, not one step: two
\* runs that overlap can both read the same job as Queued, both set it to
\* Running and both set it to Done, each after a full reconciliation.  Two
\* runs hold the same job only when they overlapped, and a run that holds a
\* job and has passed the gate has set it to Running itself.
C20_DoubleClaimOnlyByRace ==
    \A r \in RunIds :
        /\ (job[r] # NoId /\ pc[r] \in Working \cup {"done"}) => MarkedRunning(r)
        /\ \A q \in RunIds \ {r} :
               (job[r] # NoId /\ job[r] = job[q]) => (overlapped[r] /\ overlapped[q])

\* C20 witness: one Queued job, two runs that held it at the gate together;
\* both have marked it, both have made their upsert calls and returned Done,
\* and the one job is Done.
C20_Witness ==
    \E r, q \in RunIds :
        /\ r # q /\ Len(jobs) = 1
        /\ job[r] = 1 /\ job[q] = 1
        /\ MarkedRunning(r) /\ MarkedRunning(q)
        /\ ReturnedDone(r) /\ ReturnedDone(q)
        /\ handed[r] # {} /\ handed[q] # {}
        /\ created[r] + updated[r] >= 1 /\ created[q] + updated[q] >= 1
        /\ jobs[1].status = "Done"

====
